---- MODULE Spec2Model ----
(***************************************************************************)
(* Schema traversal engine of schematools (src/src/schemas.ts,             *)
(* src/src/paths.ts, src/src/registry.ts).                                  *)
(*                                                                         *)
(* A schema is a graph of JavaScript objects.  The model keeps the objects *)
(* in a heap: a function from node identities to node records.  Two        *)
(* references denote "the same node" iff they are the same identity, which *)
(* is what Array.prototype.includes compares in the cycle guard.           *)
(*                                                                         *)
(* Strings that the code takes apart or puts together (property paths) are *)
(* sequences of tokens: a token is "." "[" "]" "*" "-", a digit, or a      *)
(* chunk of name characters that the code never splits.                    *)
(***************************************************************************)
EXTENDS Integers, Sequences, FiniteSets, TLC

VARIABLES heap, declared, schemas, call, last

vars == <<heap, declared, schemas, call, last>>

(***************************************************************************)
(* Bounds of the model.                                                    *)
(***************************************************************************)
\* Deepest JavaScript call stack: a deeper recursion ends in RangeError.
MaxStack == 8
\* Longest chain of $ref hops one while loop follows before it is taken to
\* spin forever.
MaxHops == 5
\* Longest property path handed to a call.
MaxPathLen == 2
\* Largest maxDepth argument handed to a call.
MaxDepthArg == 2

(***************************************************************************)
(* JavaScript values.                                                      *)
(***************************************************************************)
Undefined == "undefined"
Null == "null"
\* Outcomes of a call that returns no value.
RangeError == "RangeError"
Hang == "Hang"
SchemaError == "SchemaError"
NoError == "none"

\* x is truthy (strings other than undefined/null; node identities are objects).
Truthy(x) == x # Undefined /\ x # Null

\* The wildcard array index.
Wildcard == -1

\* A path segment: a property name (a string) or a number.
Name(str) == [isNumber |-> FALSE, str |-> str, num |-> 0]
Index(n) == [isNumber |-> TRUE, str |-> <<>>, num |-> n]
\* The number NaN, which parseInt gives for a string without leading digits.
NaN == [isNumber |-> TRUE, str |-> <<"NaN">>, num |-> 0]
\* The test taking the wildcard for no integer.
IsIntegerNoWildcard(seg) == seg.isNumber /\ seg # NaN /\ seg.num >= 0

\* _.isInteger(x)
IsInteger(seg) == seg.isNumber /\ seg # NaN

\* The decimal digits of a small number, as String(n) gives them.
Digits == <<"0", "1", "2", "3", "4", "5", "6", "7", "8", "9">>
NumberToString(n) ==
  IF n < 0 THEN <<"-", Digits[(0 - n) + 1]>> ELSE <<Digits[n + 1]>>
\* String(x) of a number segment.
NumberText(seg) == IF seg = NaN THEN <<"NaN">> ELSE NumberToString(seg.num)

RECURSIVE Reverse(_)
Reverse(s) == IF s = <<>> THEN <<>> ELSE Reverse(Tail(s)) \o <<Head(s)>>

RECURSIVE Concat(_)
Concat(ss) == IF ss = <<>> THEN <<>> ELSE Head(ss) \o Concat(Tail(ss))

(***************************************************************************)
(* Schema nodes.                                                           *)
(***************************************************************************)
NodeIds == {"n1", "n2", "n3", "n4"}

\* A node with none of the recognised keys.
EmptyNode ==
  [ref |-> Undefined, type |-> Undefined, properties |-> <<>>, items |-> Undefined,
   hasAllOf |-> FALSE, allOf |-> <<>>, hasOneOf |-> FALSE, oneOf |-> <<>>,
   required |-> {}, transient |-> Undefined,
   storage |-> Undefined, entityType |-> Undefined, foreignKey |-> Undefined,
   frozen |-> FALSE]

\* properties[name] of a node, Undefined when the key is missing.
RECURSIVE Lookup(_, _)
Lookup(props, name) ==
  IF props = <<>> THEN Undefined
  ELSE IF Head(props).name = name THEN Head(props).schema
  ELSE Lookup(Tail(props), name)

\* _.keys(properties), in insertion order.
Keys(props) == [i \in 1..Len(props) |-> props[i].name]

(***************************************************************************)
(* paths.ts                                                                *)
(***************************************************************************)
pathDepth(pathArr) == Len(pathArr)

RECURSIVE arrayToDottedPathRest(_)
arrayToDottedPathRest(rest) ==
  IF rest = <<>> THEN <<>>
  ELSE LET pathElement == Head(rest) IN
       (IF pathElement.isNumber
          THEN <<"[">> \o (IF pathElement = Index(Wildcard) THEN <<"*">>
                           ELSE NumberText(pathElement)) \o <<"]">>
          ELSE <<".">> \o pathElement.str)
       \o arrayToDottedPathRest(Tail(rest))

arrayToDottedPath(pathArray) ==
  IF Len(pathArray) = 0 THEN <<>>
  ELSE LET firstElement == Head(pathArray) IN
       (IF firstElement.isNumber THEN NumberText(firstElement)
        ELSE firstElement.str)
       \o arrayToDottedPathRest(Tail(pathArray))

\* A path string is the sequence of its characters; a property name counts as
\* one character.
IsDigit(c) == \E i \in 1..Len(Digits) : Digits[i] = c
DigitValue(c) == (CHOOSE i \in 1..Len(Digits) : Digits[i] = c) - 1

\* The position of the first '[' of s at or after i, 0 when there is none.
RECURSIVE FirstBracket(_, _)
FirstBracket(s, i) ==
  IF i > Len(s) THEN 0 ELSE IF s[i] = "[" THEN i ELSE FirstBracket(s, i + 1)

\* The length of the run of digits of s that starts at i.
RECURSIVE DigitRun(_, _)
DigitRun(s, i) == IF i <= Len(s) /\ IsDigit(s[i]) THEN 1 + DigitRun(s, i + 1) ELSE 0

\* The number the n digits of s from position i spell, after the digits acc.
RECURSIVE DigitsValue(_, _, _, _)
DigitsValue(s, i, n, acc) ==
  IF n = 0 THEN acc ELSE DigitsValue(s, i + 1, n - 1, 10 * acc + DigitValue(s[i]))

\* parseInt(str): the integer spelled by the leading digits of str, after an
\* optional sign; NaN when there are none.
parseInt(str) ==
  LET signed == Len(str) > 0 /\ str[1] \in {"-", "+"}
      start == IF signed THEN 2 ELSE 1
      n == DigitRun(str, start)
      magnitude == DigitsValue(str, start, n, 0) IN
  IF n = 0 THEN NaN
  ELSE Index(IF signed /\ str[1] = "-" THEN 0 - magnitude ELSE magnitude)

\* tail.match(/^([^[]*)\[([0-9]+|\*)\]\.?(.*)$/): group 1 is the text before
\* the first '[', group 2 the digits or the star between the brackets, group 3
\* what follows the group and one optional dot.
pathMatch(tail) ==
  LET open == FirstBracket(tail, 1)
      inner == IF open = 0 THEN 0
               ELSE IF open + 1 <= Len(tail) /\ tail[open + 1] = "*" THEN 1
               ELSE DigitRun(tail, open + 1)
      close == open + inner + 1
      matched == open > 0 /\ inner > 0 /\ close <= Len(tail) /\ tail[close] = "]"
      rest == IF close + 1 <= Len(tail) /\ tail[close + 1] = "." THEN close + 2 ELSE close + 1
  IN IF ~matched THEN [matched |-> FALSE, g1 |-> <<>>, g2 |-> <<>>, g3 |-> <<>>]
     ELSE [matched |-> TRUE, g1 |-> SubSeq(tail, 1, open - 1),
           g2 |-> SubSeq(tail, open + 1, close - 1), g3 |-> SubSeq(tail, rest, Len(tail))]

\* while (tail.length > 0) { ... }: a tail without a bracket group is pushed
\* whole; otherwise group 1 is pushed, then -1 for a star or parseInt(match[1])
\* for digits, and the loop goes on with group 3.
RECURSIVE dottedPathToArray(_)
dottedPathToArray(path) ==
  IF Len(path) = 0 THEN <<>>
  ELSE LET match == pathMatch(path) IN
       IF ~match.matched THEN <<Name(path)>>
       ELSE <<Name(match.g1),
              IF match.g2 = <<"*">> THEN Index(Wildcard) ELSE parseInt(match.g1)>>
            \o dottedPathToArray(match.g3)

\* A PropertyPath argument: a string (str.set) or else an array.
propertyPathToArray(str, arr) == IF str.set THEN dottedPathToArray(str.val) ELSE arr

\* array.slice(start, end), with negative positions counted from the end.
slice(arr, start, end) ==
  LET from == IF start < 0 THEN (IF Len(arr) + start < 0 THEN 0 ELSE Len(arr) + start)
              ELSE (IF start > Len(arr) THEN Len(arr) ELSE start)
      to == IF end < 0 THEN (IF Len(arr) + end < 0 THEN 0 ELSE Len(arr) + end)
            ELSE (IF end > Len(arr) THEN Len(arr) ELSE end)
  IN SubSeq(arr, from + 1, to)

\* throw 'Error'
PathError == "Error"

shortenPath(path, numComponentsToTrim) ==
  LET pathArray == dottedPathToArray(path) IN
  IF numComponentsToTrim > Len(pathArray) THEN [error |-> PathError, value |-> <<>>]
  ELSE [error |-> NoError,
        value |-> arrayToDottedPath(slice(pathArray, 0, 0 - numComponentsToTrim))]

tailPath(path, numComponentsToTrim) ==
  LET pathArray == dottedPathToArray(path) IN
  IF numComponentsToTrim > Len(pathArray) THEN [error |-> PathError, value |-> <<>>]
  ELSE [error |-> NoError,
        value |-> arrayToDottedPath(slice(pathArray, 0 - numComponentsToTrim, Len(pathArray)))]

(***************************************************************************)
(* paths.ts: mapPaths.  The input is a graph of containers (objects and    *)
(* arrays) holding strings, nulls and references to containers; the output *)
(* is a freshly built tree.                                                *)
(***************************************************************************)
NullValue == [kind |-> "null", id |-> "", text |-> <<>>]
StringValue(text) == [kind |-> "string", id |-> "", text |-> text]
ContainerValue(id) == [kind |-> "container", id |-> id, text |-> <<>>]

Entry(key, value) == [key |-> key, value |-> value]
ObjectOf(entries) == [isArray |-> FALSE, entries |-> entries]
ArrayOf(entries) == [isArray |-> TRUE, entries |-> entries]

OutNull == [kind |-> "null", text |-> <<>>, entries |-> <<>>]
OutString(text) == [kind |-> "string", text |-> text, entries |-> <<>>]
OutObject(entries) == [kind |-> "object", text |-> <<>>, entries |-> entries]
OutArray(entries) == [kind |-> "array", text |-> <<>>, entries |-> entries]

\* The transformers the callers pass: both put a segment in front of the
\* path; the second also returns additionalOptions.
transformPath(transformer, path) ==
  [path |-> <<"x", ".">> \o path,
   additionalOptions |-> IF transformer = "withOptions"
                           THEN <<Entry("opt", OutString(<<"o">>))>> ELSE <<>>]

\* mappedObject[key] = value
SetKey(mappedObject, key, value) ==
  IF \E i \in 1..Len(mappedObject) : mappedObject[i].key = key
    THEN [i \in 1..Len(mappedObject) |->
            IF mappedObject[i].key = key THEN Entry(key, value) ELSE mappedObject[i]]
    ELSE Append(mappedObject, Entry(key, value))

\* _.assign(mappedObject, additionalOptions)
RECURSIVE assign(_, _)
assign(mappedObject, additionalOptions) ==
  IF additionalOptions = <<>> THEN mappedObject
  ELSE assign(SetKey(mappedObject, Head(additionalOptions).key, Head(additionalOptions).value),
              Tail(additionalOptions))

\* visited.includes(value): visited holds objects only, compared by identity.
visitedIncludes(visited, value) ==
  value.kind = "container" /\ \E i \in 1..Len(visited) : visited[i] = value.id

RECURSIVE mapPaths(_, _, _, _, _)
RECURSIVE mapElements(_, _, _, _, _)
RECURSIVE mapKeys(_, _, _, _, _, _)

\* x.map((element) => mapPaths(element, transformPath)): every element is
\* mapped with a visited list of its own, created empty.
mapElements(g, elements, transformer, depth, mapped) ==
  IF elements = <<>> THEN [error |-> NoError, value |-> OutArray(mapped), visited |-> <<>>]
  ELSE LET r == mapPaths(g, Head(elements).value, transformer, <<>>, depth + 1) IN
       IF r.error # NoError THEN r
       ELSE mapElements(g, Tail(elements), transformer, depth,
                        Append(mapped, Entry("", r.value)))

\* for (const key in x) { ... }: visited is one array shared by the whole walk
\* below an object, so what a recursive call pushes stays pushed.
mapKeys(g, entries, transformer, visited, depth, mappedObject) ==
  IF entries = <<>>
    THEN [error |-> NoError, value |-> OutObject(mappedObject), visited |-> visited]
  ELSE LET key == Head(entries).key
           value == Head(entries).value IN
       IF key = "path" /\ value.kind = "string" THEN
         LET t == transformPath(transformer, value.text) IN
         mapKeys(g, Tail(entries), transformer, visited, depth,
                 assign(SetKey(mappedObject, key, OutString(t.path)), t.additionalOptions))
       ELSE IF visitedIncludes(visited, value) THEN
         mapKeys(g, Tail(entries), transformer, visited, depth, mappedObject)
       ELSE LET r == mapPaths(g, value, transformer, visited, depth + 1) IN
            IF r.error # NoError THEN r
            ELSE mapKeys(g, Tail(entries), transformer, r.visited, depth,
                         SetKey(mappedObject, key, r.value))

mapPaths(g, x, transformer, visited, depth) ==
  IF depth > MaxStack THEN [error |-> RangeError, value |-> OutNull, visited |-> visited]
  ELSE IF x.kind = "null" THEN [error |-> NoError, value |-> OutNull, visited |-> visited]
  ELSE IF x.kind = "container" /\ g[x.id].isArray THEN
    LET r == mapElements(g, g[x.id].entries, transformer, depth, <<>>) IN
    [error |-> r.error, value |-> r.value, visited |-> visited]
  ELSE IF x.kind # "container"
    THEN [error |-> NoError, value |-> OutString(x.text), visited |-> visited]
  ELSE mapKeys(g, g[x.id].entries, transformer, Append(visited, x.id), depth, <<>>)

(***************************************************************************)
(* registry.ts: the resolver the registry binds to the algorithms.         *)
(***************************************************************************)
schemaRefTranslator(refPath) == refPath

\* schemas: SchemaRegistryContent = {}: a plain object.  reg holds its own
\* keys; a key it does not have is looked up on Object.prototype.
EmptyRegistry == [schemaId \in {} |-> "n1"]
ObjectPrototypeKeys == {"constructor", "toString", "valueOf", "hasOwnProperty"}
\* What such an inherited key yields: a function, never a schema.
InheritedMember == "function"

\* this.schemas[schemaId]
getSchema(reg, schemaId) ==
  IF schemaId \in DOMAIN reg THEN reg[schemaId]
  ELSE IF schemaId \in ObjectPrototypeKeys THEN InheritedMember
  ELSE Undefined

\* this.schemas[schemaId] = Object.freeze(schema): the registry's part.
registerSchema(reg, schemaId, schema) ==
  [id \in (DOMAIN reg) \cup {schemaId} |-> IF id = schemaId THEN schema ELSE reg[id]]

\* Object.freeze(schema) freezes the object it is given and nothing below it.
freeze(h, schema) == [h EXCEPT ![schema].frozen = TRUE]

\* delete this.schemas[schemaId]
deregisterSchema(reg, schemaId) == [id \in (DOMAIN reg) \ {schemaId} |-> reg[id]]


\* A resolver that looks into the registry contents of construction time.
resolveSchemaRefAtConstruction(reg, ref) == getSchema(EmptyRegistry, schemaRefTranslator(ref))

\* this.resolveSchemaRef.bind(this): the resolver the wrappers hand over.
resolveSchemaRef(reg, ref) == getSchema(reg, schemaRefTranslator(ref))

(***************************************************************************)
(* schemas.ts: findPropertyInSchema                                        *)
(***************************************************************************)
\* The property key a path segment selects (numbers are coerced to strings).
PropertyKey(seg) == IF seg.isNumber THEN NumberText(seg) ELSE seg.str

\* while (schemaOption && schemaOption.$ref) schemaOption = resolve(schemaOption.$ref)
RECURSIVE resolveOption(_, _, _, _)
resolveOption(h, reg, schemaOption, hops) ==
  IF schemaOption = Undefined THEN Undefined
  ELSE IF ~Truthy(h[schemaOption].ref) THEN schemaOption
  ELSE IF hops >= MaxHops THEN Hang
  ELSE resolveOption(h, reg, resolveSchemaRef(reg, h[schemaOption].ref), hops + 1)

\* _.reverse(array): reverses the array in place and returns it.
reverseInPlace(h, schema) == [h EXCEPT ![schema].allOf = Reverse(@)]

RECURSIVE findPropertyInSchema(_, _, _, _, _)
RECURSIVE findPropertyInOptions(_, _, _, _, _, _, _)

\* for (let schemaOption of options): the loop reads the live array by index,
\* so it sees a reversal done by a recursive call on the same node.
findPropertyInOptions(h, reg, schema, key, i, pathArr, depth) ==
  LET options == IF key = "allOf" THEN h[schema].allOf ELSE h[schema].oneOf IN
  IF i > Len(options) THEN [heap |-> h, result |-> Undefined]
  ELSE LET schemaOption == resolveOption(h, reg, options[i], 0) IN
       IF schemaOption = Hang THEN [heap |-> h, result |-> Hang]
       ELSE IF schemaOption = Undefined
         THEN findPropertyInOptions(h, reg, schema, key, i + 1, pathArr, depth)
       ELSE LET r == findPropertyInSchema(h, reg, schemaOption, pathArr, depth + 1) IN
            IF r.result \in {RangeError, Hang} \/ Truthy(r.result) THEN r
            ELSE findPropertyInOptions(r.heap, reg, schema, key, i + 1, pathArr, depth)

findPropertyInSchema(h, reg, schema, pathArr, depth) ==
  IF depth > MaxStack THEN [heap |-> h, result |-> RangeError]
  ELSE IF Truthy(h[schema].ref) THEN
    LET referencedSchema == resolveSchemaRef(reg, h[schema].ref) IN
    IF referencedSchema = Undefined THEN [heap |-> h, result |-> Undefined]
    ELSE findPropertyInSchema(h, reg, referencedSchema, pathArr, depth + 1)
  ELSE IF Len(pathArr) = 0 THEN [heap |-> h, result |-> schema]
  ELSE IF h[schema].hasAllOf THEN
    findPropertyInOptions(reverseInPlace(h, schema), reg, schema, "allOf", 1, pathArr, depth)
  ELSE IF h[schema].hasOneOf THEN
    findPropertyInOptions(h, reg, schema, "oneOf", 1, pathArr, depth)
  ELSE IF h[schema].type = "object" THEN
    LET found == Lookup(h[schema].properties, PropertyKey(pathArr[1]))
        subschema == IF found = Undefined THEN Null ELSE found IN
    IF Len(pathArr) = 1 \/ subschema = Null THEN [heap |-> h, result |-> subschema]
    ELSE findPropertyInSchema(h, reg, subschema, Tail(pathArr), depth + 1)
  ELSE IF h[schema].type = "array" THEN
    IF ~IsInteger(pathArr[1]) THEN [heap |-> h, result |-> Undefined]
    ELSE LET subschema == h[schema].items IN
         IF subschema = Undefined THEN [heap |-> h, result |-> Undefined]
         ELSE findPropertyInSchema(h, reg, subschema, Tail(pathArr), depth + 1)
  ELSE [heap |-> h, result |-> Undefined]

(***************************************************************************)
(* Optional arguments: unset (undefined) or a value.                       *)
(***************************************************************************)
UnsetStorage == [set |-> FALSE, val |-> {}]
UnsetPath == [set |-> FALSE, val |-> <<>>]
UnsetDepth == [set |-> FALSE, val |-> 0]
Given(v) == [set |-> TRUE, val |-> v]

\* const limitToPathArr = limitToPath ? propertyPathToArray(limitToPath) : undefined
\* (the empty string is falsy, the empty array is not).
limitToPathArrOf(str, limitToPath) ==
  IF ~str.set THEN limitToPath
  ELSE IF str.val = <<>> THEN UnsetPath
  ELSE Given(dottedPathToArray(str.val))

\* The value a call returns, or the error it ends with.
Returned(list) == [error |-> NoError, list |-> list]
Raised(error) == [error |-> error, list |-> <<>>]

(***************************************************************************)
(* schemas.ts: findRelationshipsInSchema                                   *)
(***************************************************************************)
\* The relationship keywords one schema node carries (an object literal that
\* always has the four keys, some with the value undefined).
relationshipPropertiesOf(node) ==
  [entityTypeName |-> node.entityType, foreignKeyPath |-> node.foreignKey,
   schemaRef |-> node.ref, storage |-> node.storage]

\* {...base, ...over}: every own key of over, undefined values included,
\* replaces the key of base.
Spread(base, over) ==
  [k \in (DOMAIN base) \cup (DOMAIN over) |-> IF k \in DOMAIN over THEN over[k] ELSE base[k]]

\* while (schema.$ref) { ... }: follows the $ref hops of a node, merging the
\* relationship keywords of every referenced schema under those collected so far.
RECURSIVE followRelationshipRefs(_, _, _, _, _)
followRelationshipRefs(h, reg, schema, relationshipProperties, hops) ==
  IF ~Truthy(h[schema].ref)
    THEN [status |-> "ok", schema |-> schema, relationshipProperties |-> relationshipProperties]
  ELSE IF hops >= MaxHops
    THEN [status |-> Hang, schema |-> schema, relationshipProperties |-> relationshipProperties]
  ELSE LET referencedSchema == resolveSchemaRef(reg, h[schema].ref) IN
       IF referencedSchema = Undefined
         THEN [status |-> "unresolved", schema |-> schema,
               relationshipProperties |-> relationshipProperties]
       ELSE followRelationshipRefs(h, reg, referencedSchema,
              Spread(relationshipPropertiesOf(h[referencedSchema]), relationshipProperties),
              hops + 1)

\* nodesTraversedInPath.includes(schema)
Includes(seq, x) == \E i \in 1..Len(seq) : seq[i] = x

\* The properties an object node is descended into.
propertiesToTraverse(propertySchemas, limitToPathArr) ==
  IF limitToPathArr.set
    THEN IF Len(limitToPathArr.val) > 0 /\ ~limitToPathArr.val[1].isNumber
            /\ Includes(Keys(propertySchemas), limitToPathArr.val[1].str)
           THEN <<limitToPathArr.val[1].str>>
           ELSE <<>>
    ELSE Keys(propertySchemas)

\* limitToPathArr ? limitToPathArr.slice(1) : undefined
sliceLimit(limitToPathArr) ==
  IF limitToPathArr.set
    THEN Given(IF Len(limitToPathArr.val) = 0 THEN <<>> ELSE Tail(limitToPathArr.val))
    ELSE UnsetPath

\* The guard without its test for an already visited node.
traversalStopsNoCycleGuard(schema, maxDepth, currentPathArr, nodesTraversedInPath) ==
  maxDepth.set /\ pathDepth(currentPathArr) > maxDepth.val

\* The guard stopping one level early.
traversalStopsAtMaxDepth(schema, maxDepth, currentPathArr, nodesTraversedInPath) ==
  \/ ~maxDepth.set /\ Includes(nodesTraversedInPath, schema)
  \/ maxDepth.set /\ pathDepth(currentPathArr) >= maxDepth.val

\* The traversal guard shared by the two finders: TRUE when the walk stops here.
traversalStops(schema, maxDepth, currentPathArr, nodesTraversedInPath) ==
  \/ ~maxDepth.set /\ Includes(nodesTraversedInPath, schema)
  \/ maxDepth.set /\ pathDepth(currentPathArr) > maxDepth.val

RECURSIVE findRelationshipsInSchema(_, _, _, _, _, _, _, _, _, _)
RECURSIVE findRelationshipsInOptions(_, _, _, _, _, _, _, _, _, _, _, _)
RECURSIVE findRelationshipsInOptionsFirstMatch(_, _, _, _, _, _, _, _, _, _, _, _)
RECURSIVE findRelationshipsInProperties(_, _, _, _, _, _, _, _, _, _, _, _)

\* The loop over the alternatives stopping at the first one that yields a relationship.
findRelationshipsInOptionsFirstMatch(h, reg, schema, schemaOptions, allowedStorage, limitToPathArr, maxDepth, currentPathArr, nodesTraversedInPath, depthFromParent, depth, relationships) ==
  IF schemaOptions = <<>> THEN Returned(relationships)
  ELSE LET r == findRelationshipsInSchema(h, reg, Head(schemaOptions), allowedStorage,
                  limitToPathArr, maxDepth, currentPathArr,
                  Append(nodesTraversedInPath, schema), depthFromParent, depth + 1) IN
       IF r.error # NoError THEN r
       ELSE IF r.list # <<>> THEN Returned(relationships \o r.list)
       ELSE findRelationshipsInOptionsFirstMatch(h, reg, schema, Tail(schemaOptions),
              allowedStorage, limitToPathArr, maxDepth, currentPathArr, nodesTraversedInPath,
              depthFromParent, depth, relationships)

\* for (const schemaOption of schemaOptions) relationships = relationships.concat(...)
findRelationshipsInOptions(h, reg, schema, schemaOptions, allowedStorage, limitToPathArr, maxDepth, currentPathArr, nodesTraversedInPath, depthFromParent, depth, relationships) ==
  IF schemaOptions = <<>> THEN Returned(relationships)
  ELSE LET r == findRelationshipsInSchema(h, reg, Head(schemaOptions), allowedStorage,
                  limitToPathArr, maxDepth, currentPathArr,
                  Append(nodesTraversedInPath, schema), depthFromParent, depth + 1) IN
       IF r.error # NoError THEN r
       ELSE findRelationshipsInOptions(h, reg, schema, Tail(schemaOptions), allowedStorage,
              limitToPathArr, maxDepth, currentPathArr, nodesTraversedInPath,
              depthFromParent, depth, relationships \o r.list)

\* for (const property of propertiesToTraverse) relationships = relationships.concat(...)
findRelationshipsInProperties(h, reg, schema, properties, allowedStorage, limitToPathArr, maxDepth, currentPathArr, nodesTraversedInPath, childDepthFromParent, depth, relationships) ==
  IF properties = <<>> THEN Returned(relationships)
  ELSE LET property == Head(properties)
           subschema == Lookup(h[schema].properties, property)
           r == findRelationshipsInSchema(h, reg, subschema, allowedStorage,
                  sliceLimit(limitToPathArr), maxDepth,
                  Append(currentPathArr, Name(property)),
                  Append(nodesTraversedInPath, schema), childDepthFromParent, depth + 1) IN
       IF r.error # NoError THEN r
       ELSE findRelationshipsInProperties(h, reg, schema, Tail(properties), allowedStorage,
              limitToPathArr, maxDepth, currentPathArr, nodesTraversedInPath,
              childDepthFromParent, depth, relationships \o r.list)

findRelationshipsInSchema(h, reg, schema0, allowedStorage, limitToPathArr, maxDepth, currentPathArr, nodesTraversedInPath, depthFromParent, depth) ==
  IF depth > MaxStack THEN Raised(RangeError)
  ELSE
  LET followed == followRelationshipRefs(h, reg, schema0,
                    relationshipPropertiesOf(h[schema0]), 0) IN
  IF followed.status = Hang THEN Raised(Hang)
  ELSE IF followed.status = "unresolved" THEN Returned(<<>>)
  ELSE
  LET schema == followed.schema
      relationshipProperties == followed.relationshipProperties
      relationshipIsReference ==
        Truthy(relationshipProperties.storage)
        /\ relationshipProperties.storage \in {"ref", "inverse-ref"}
      isRecorded ==
        Truthy(relationshipProperties.storage)
        /\ (~allowedStorage.set \/ relationshipProperties.storage \in allowedStorage.val)
      relationship ==
        [path |-> arrayToDottedPath(currentPathArr), toMany |-> FALSE,
         storage |-> relationshipProperties.storage,
         entityTypeName |-> relationshipProperties.entityTypeName,
         schemaRef |-> relationshipProperties.schemaRef,
         schema |-> schema, depthFromParent |-> depthFromParent,
         foreignKeyPath |-> IF relationshipProperties.storage = "inverse-ref"
                              THEN relationshipProperties.foreignKeyPath ELSE Undefined]
      relationships == IF isRecorded THEN <<relationship>> ELSE <<>>
  IN
  IF isRecorded /\ relationshipProperties.storage = "inverse-ref"
     /\ ~Truthy(relationshipProperties.foreignKeyPath)
    THEN Raised(SchemaError)
  ELSE IF traversalStops(schema, maxDepth, currentPathArr, nodesTraversedInPath)
    THEN Returned(<<>>)
  ELSE IF h[schema].hasAllOf \/ h[schema].hasOneOf THEN
    findRelationshipsInOptions(h, reg, schema,
      IF h[schema].hasAllOf THEN h[schema].allOf ELSE h[schema].oneOf,
      allowedStorage, limitToPathArr, maxDepth, currentPathArr, nodesTraversedInPath,
      depthFromParent, depth, relationships)
  ELSE IF h[schema].type = "object" THEN
    findRelationshipsInProperties(h, reg, schema,
      propertiesToTraverse(h[schema].properties, limitToPathArr),
      allowedStorage, limitToPathArr, maxDepth, currentPathArr, nodesTraversedInPath,
      IF relationshipIsReference THEN 0 ELSE depthFromParent + 1, depth, relationships)
  ELSE IF h[schema].type = "array" THEN
    IF (~limitToPathArr.set \/ Len(limitToPathArr.val) > 0) /\ Truthy(h[schema].items)
      THEN LET r == findRelationshipsInSchema(h, reg, h[schema].items, allowedStorage,
                      sliceLimit(limitToPathArr), maxDepth,
                      Append(currentPathArr, Index(Wildcard)),
                      Append(nodesTraversedInPath, schema), depthFromParent + 1, depth + 1) IN
           IF r.error # NoError THEN r ELSE Returned(relationships \o r.list)
      ELSE Returned(relationships)
  ELSE Returned(relationships)

(***************************************************************************)
(* schemas.ts: findTransientPropertiesInSchema                             *)
(***************************************************************************)
True == "true"
False == "false"

\* while (schema.$ref) { ... }: follows the $ref hops, keeping in the local
\* variable transient the first defined transient value met on the way.
RECURSIVE followTransientRefs(_, _, _, _, _)
followTransientRefs(h, reg, schema, transient, hops) ==
  IF ~Truthy(h[schema].ref)
    THEN [status |-> "ok", schema |-> schema, transient |-> transient]
  ELSE IF hops >= MaxHops
    THEN [status |-> Hang, schema |-> schema, transient |-> transient]
  ELSE LET referencedSchema == resolveSchemaRef(reg, h[schema].ref) IN
       IF referencedSchema = Undefined
         THEN [status |-> "unresolved", schema |-> schema, transient |-> transient]
       ELSE followTransientRefs(h, reg, referencedSchema,
              IF transient = Undefined THEN h[referencedSchema].transient ELSE transient,
              hops + 1)

\* The flag the finder tests before it reports the current path: the
\* transient key of the schema the walk has arrived at.
reportedTransient(h, followed) == h[followed.schema].transient

RECURSIVE findTransientPropertiesInSchema(_, _, _, _, _, _, _, _)
RECURSIVE findTransientInOptions(_, _, _, _, _, _, _, _, _, _)
RECURSIVE findTransientInProperties(_, _, _, _, _, _, _, _, _, _)

findTransientInOptions(h, reg, schema, schemaOptions, limitToPathArr, maxDepth, currentPathArr, nodesTraversedInPath, depth, transientPropertyPaths) ==
  IF schemaOptions = <<>> THEN Returned(transientPropertyPaths)
  ELSE LET r == findTransientPropertiesInSchema(h, reg, Head(schemaOptions), limitToPathArr,
                  maxDepth, currentPathArr, Append(nodesTraversedInPath, schema), depth + 1) IN
       IF r.error # NoError THEN r
       ELSE findTransientInOptions(h, reg, schema, Tail(schemaOptions), limitToPathArr,
              maxDepth, currentPathArr, nodesTraversedInPath, depth,
              transientPropertyPaths \o r.list)

findTransientInProperties(h, reg, schema, properties, limitToPathArr, maxDepth, currentPathArr, nodesTraversedInPath, depth, transientPropertyPaths) ==
  IF properties = <<>> THEN Returned(transientPropertyPaths)
  ELSE LET property == Head(properties)
           subschema == Lookup(h[schema].properties, property)
           r == findTransientPropertiesInSchema(h, reg, subschema,
                  sliceLimit(limitToPathArr), maxDepth,
                  Append(currentPathArr, Name(property)),
                  Append(nodesTraversedInPath, schema), depth + 1) IN
       IF r.error # NoError THEN r
       ELSE findTransientInProperties(h, reg, schema, Tail(properties), limitToPathArr,
              maxDepth, currentPathArr, nodesTraversedInPath, depth,
              transientPropertyPaths \o r.list)

findTransientPropertiesInSchema(h, reg, schema0, limitToPathArr, maxDepth, currentPathArr, nodesTraversedInPath, depth) ==
  IF depth > MaxStack THEN Raised(RangeError)
  ELSE
  LET followed == followTransientRefs(h, reg, schema0, h[schema0].transient, 0) IN
  IF followed.status = Hang THEN Raised(Hang)
  ELSE IF followed.status = "unresolved" THEN Returned(<<>>)
  ELSE
  LET schema == followed.schema
      transientPropertyPaths ==
        IF pathDepth(currentPathArr) = 0 THEN <<>>
        ELSE IF reportedTransient(h, followed) = True
          THEN <<arrayToDottedPath(currentPathArr)>>
        ELSE <<>>
  IN
  IF traversalStops(schema, maxDepth, currentPathArr, nodesTraversedInPath)
    THEN Returned(<<>>)
  ELSE IF h[schema].hasAllOf \/ h[schema].hasOneOf THEN
    findTransientInOptions(h, reg, schema,
      IF h[schema].hasAllOf THEN h[schema].allOf ELSE h[schema].oneOf,
      limitToPathArr, maxDepth, currentPathArr, nodesTraversedInPath, depth,
      transientPropertyPaths)
  ELSE IF h[schema].type = "object" THEN
    findTransientInProperties(h, reg, schema,
      propertiesToTraverse(h[schema].properties, limitToPathArr),
      limitToPathArr, maxDepth, currentPathArr, nodesTraversedInPath, depth,
      transientPropertyPaths)
  ELSE IF h[schema].type = "array" THEN
    IF (~limitToPathArr.set \/ Len(limitToPathArr.val) > 0) /\ Truthy(h[schema].items)
      THEN LET r == findTransientPropertiesInSchema(h, reg, h[schema].items,
                      sliceLimit(limitToPathArr), maxDepth,
                      Append(currentPathArr, Index(Wildcard)),
                      Append(nodesTraversedInPath, schema), depth + 1) IN
           IF r.error # NoError THEN r ELSE Returned(transientPropertyPaths \o r.list)
      ELSE Returned(transientPropertyPaths)
  ELSE Returned(transientPropertyPaths)

(***************************************************************************)
(* schemas.ts: propertyIsRequiredInSchema                                  *)
(***************************************************************************)
\* The test looking only at whether the node requires anything.
listsRequiredAnyName(node, pathArr) ==
  Len(pathArr) > 0 /\ ~pathArr[1].isNumber /\ node.required # {}

\* (schema.required || []).includes(pathArr[0])
listsRequired(node, pathArr) ==
  Len(pathArr) > 0 /\ ~pathArr[1].isNumber /\ pathArr[1].str \in node.required

RECURSIVE propertyIsRequiredInSchema(_, _, _, _, _)
RECURSIVE propertyIsRequiredInOptions(_, _, _, _, _)

\* for (const schemaOption of schemaOptions) if (propertyIsRequired(...)) return true
propertyIsRequiredInOptions(h, reg, schemaOptions, pathArr, depth) ==
  IF schemaOptions = <<>> THEN Undefined
  ELSE LET r == propertyIsRequiredInSchema(h, reg, Head(schemaOptions), pathArr, depth + 1) IN
       IF r \in {RangeError, Hang} THEN r
       ELSE IF r = True THEN True
       ELSE propertyIsRequiredInOptions(h, reg, Tail(schemaOptions), pathArr, depth)

propertyIsRequiredInSchema(h, reg, schema, pathArr, depth) ==
  IF depth > MaxStack THEN RangeError
  ELSE IF Truthy(h[schema].ref) THEN
    LET referencedSchema == resolveSchemaRef(reg, h[schema].ref) IN
    IF referencedSchema = Undefined THEN False
    ELSE propertyIsRequiredInSchema(h, reg, referencedSchema, pathArr, depth + 1)
  ELSE IF h[schema].hasAllOf \/ h[schema].hasOneOf THEN
    propertyIsRequiredInOptions(h, reg,
      IF h[schema].hasAllOf THEN h[schema].allOf ELSE h[schema].oneOf, pathArr, depth)
  ELSE IF h[schema].type = "object" THEN
    IF ~listsRequired(h[schema], pathArr) THEN False
    ELSE LET subschema == Lookup(h[schema].properties, PropertyKey(pathArr[1])) IN
         IF Len(pathArr) = 1 \/ subschema = Undefined THEN True
         ELSE propertyIsRequiredInSchema(h, reg, subschema, Tail(pathArr), depth + 1)
  ELSE IF h[schema].type = "array" THEN
    IF Len(pathArr) = 1 THEN False ELSE True
  ELSE True

(***************************************************************************)
(* Schemas the callers build.  Every node is of one structural kind        *)
(* (reference, allOf, oneOf, object, array or primitive) and may carry the *)
(* annotation keywords on top of it.                                       *)
(***************************************************************************)
Prop(name, schema) == [name |-> name, schema |-> schema]
Leaf == [EmptyNode EXCEPT !.type = "string"]
Obj(props) == [EmptyNode EXCEPT !.type = "object", !.properties = props]
Arr(items) == [EmptyNode EXCEPT !.type = "array", !.items = items]
Ref(ref) == [EmptyNode EXCEPT !.ref = ref]
AllOf(options) == [EmptyNode EXCEPT !.hasAllOf = TRUE, !.allOf = options]
OneOf(options) == [EmptyNode EXCEPT !.hasOneOf = TRUE, !.oneOf = options]

\* Property names used by the generated schemas.
A == <<"a">>
B == <<"b">>

\* The registry every generated schema is resolved against: "#n" names node n,
\* and "#missing" is registered nowhere.
RefName(n) == CASE n = "n1" -> "#n1" [] n = "n2" -> "#n2" [] n = "n3" -> "#n3" [] OTHER -> "#n4"
NodeRegistry == [r \in {"#n1", "#n2", "#n3", "#n4"} |->
                   CHOOSE n \in NodeIds : RefName(n) = r]
RefTo(n) == Ref(RefName(n))
MissingRef == Ref("#missing")

\* Structural shapes of the generated nodes, node by node.
Shapes1 == {Obj(<<Prop(A, "n2"), Prop(B, "n3")>>), AllOf(<<"n2", "n3">>),
            OneOf(<<"n2", "n3">>), Arr("n2")}
Shapes2 == {Leaf, Obj(<<Prop(A, "n3")>>), Obj(<<Prop(A, "n4")>>), RefTo("n3"),
            Arr("n3"), AllOf(<<"n3", "n4">>), MissingRef}
Shapes3 == {Leaf, Obj(<<Prop(A, "n1")>>), Obj(<<Prop(A, "n4")>>), RefTo("n1"), RefTo("n4")}
Shapes4 == {Leaf, RefTo("n1"), RefTo("n4")}

MakeHeap(s1, s2, s3, s4) ==
  [n \in NodeIds |-> CASE n = "n1" -> s1 [] n = "n2" -> s2 [] n = "n3" -> s3 [] OTHER -> s4]

Topologies ==
  {MakeHeap(s1, s2, s3, s4) : s1 \in Shapes1, s2 \in Shapes2, s3 \in Shapes3, s4 \in Shapes4}

(***************************************************************************)
(* The Person schema: an object whose manager property refers back to the  *)
(* schema itself, registered as '#Person'.                                 *)
(***************************************************************************)
PersonHeap ==
  MakeHeap(Obj(<<Prop(<<"name">>, "n2"), Prop(<<"manager">>, "n3")>>),
           Leaf,
           [Ref("#Person") EXCEPT !.storage = "ref", !.entityType = "Person"],
           Leaf)
PersonRegistry == [r \in {"#Person"} |-> "n1"]

(***************************************************************************)
(* schemas.ts: expandSchemaReferences.  resolveRefs comes from the         *)
(* repository's json-refs module; it is modelled as the specification      *)
(* describes it: every object carrying a $ref key is a reference site, the *)
(* filter is asked with the path of that object, and the sites it accepts  *)
(* are replaced by what the resolver returns.                              *)
(***************************************************************************)
\* filter: (_refDetails, path) => path[path.length - 1] != 'properties'
filter(refDetails, path) == path = <<>> \/ path[Len(path)] # "properties"

HasPropertyNamed(node, name) ==
  \E i \in 1..Len(node.properties) : node.properties[i].name = name

RECURSIVE refSites(_, _, _)
RECURSIVE refSitesBelow(_, _, _, _)

\* The sites below the children of a node; children are (key path, node) pairs.
refSitesBelow(h, path, children, sites) ==
  IF children = <<>> THEN sites
  ELSE refSitesBelow(h, path, Tail(children),
         sites \o refSites(h, Head(children).schema, path \o Head(children).name))

\* The objects of the document rooted at schema that carry a $ref key, each
\* with the path of keys leading to it: schema nodes with a $ref, and
\* properties maps with a property named $ref.
refSites(h, schema, path) ==
  LET node == h[schema]
      own == IF Truthy(node.ref)
               THEN <<[path |-> path, ref |-> node.ref, isPropertyName |-> FALSE]>>
               ELSE <<>>
      map == IF HasPropertyNamed(node, <<"$ref">>)
               THEN <<[path |-> Append(path, "properties"), ref |-> Undefined,
                       isPropertyName |-> TRUE]>>
               ELSE <<>>
      children ==
        [i \in 1..Len(node.properties) |->
           Prop(<<"properties">> \o node.properties[i].name, node.properties[i].schema)]
        \o (IF Truthy(node.items) THEN <<Prop(<<"items">>, node.items)>> ELSE <<>>)
        \o [i \in 1..Len(node.allOf) |-> Prop(<<"allOf", Digits[i]>>, node.allOf[i])]
        \o [i \in 1..Len(node.oneOf) |-> Prop(<<"oneOf", Digits[i]>>, node.oneOf[i])]
  IN refSitesBelow(h, path, children, own \o map)

\* resolveRefs(schema, {filter, refPostProcessor, resolveCirculars: true}):
\* for every reference site, whether it was replaced and by which node.
resolveRefs(h, reg, schema) ==
  LET sites == refSites(h, schema, <<>>) IN
  [i \in 1..Len(sites) |->
     [path |-> sites[i].path, ref |-> sites[i].ref,
      isPropertyName |-> sites[i].isPropertyName,
      substituted |-> filter(sites[i], sites[i].path),
      node |-> IF filter(sites[i], sites[i].path) /\ ~sites[i].isPropertyName
                 THEN resolveSchemaRef(reg, sites[i].ref) ELSE Undefined]]

expandSchemaReferences(h, reg, schema) == resolveRefs(h, reg, schema)

(***************************************************************************)
(* Arguments of the calls.                                                 *)
(***************************************************************************)
Segments == {Name(A), Name(B), Index(Wildcard), Index(0)}
\* The finders never read the value of an array segment of limitToPath.
LimitSegments == {Name(A), Name(B), Index(Wildcard)}

RECURSIVE PathsOver(_, _)
PathsOver(segments, n) ==
  IF n = 0 THEN {<<>>}
  ELSE LET shorter == PathsOver(segments, n - 1) IN
       shorter \cup {Append(p, seg) : p \in shorter, seg \in segments}

Paths == PathsOver(Segments, MaxPathLen)

MaxDepths == {UnsetDepth} \cup {Given(d) : d \in 0..MaxDepthArg}
StorageFilters == {UnsetStorage, Given({"ref"}), Given({"copy", "inverse-ref"})}
\* limitToPath and maxDepth as the finders are called with them.
Limits ==
  {[limitToPath |-> UnsetPath, maxDepth |-> d] : d \in MaxDepths}
  \cup {[limitToPath |-> Given(p), maxDepth |-> d] :
          p \in PathsOver(LimitSegments, MaxPathLen), d \in {UnsetDepth, Given(MaxDepthArg)}}

\* pathStr is set when the path (for the finders: limitToPath) is passed as a
\* string instead of an array.
NoArgs ==
  [op |-> "none", schema |-> "n1", path |-> <<>>, pathStr |-> UnsetPath,
   allowedStorage |-> UnsetStorage, limitToPath |-> UnsetPath, maxDepth |-> UnsetDepth,
   numComponentsToTrim |-> 0, schemaId |-> "none", x |-> NullValue,
   transformPath |-> "none"]

FindPropertyCalls ==
  {[NoArgs EXCEPT !.op = "findPropertyInSchema", !.path = p] : p \in Paths}
PropertyIsRequiredCalls ==
  {[NoArgs EXCEPT !.op = "propertyIsRequiredInSchema", !.path = p] : p \in Paths}
FindRelationshipsCalls ==
  {[NoArgs EXCEPT !.op = "findRelationshipsInSchema", !.allowedStorage = f,
                  !.limitToPath = l.limitToPath, !.maxDepth = l.maxDepth] :
     f \in StorageFilters, l \in Limits}
FindTransientCalls ==
  {[NoArgs EXCEPT !.op = "findTransientPropertiesInSchema",
                  !.limitToPath = l.limitToPath, !.maxDepth = l.maxDepth] : l \in Limits}

\* Nothing has been returned yet.
NoResult ==
  [done |-> FALSE, value |-> Undefined, error |-> NoError, list |-> <<>>, text |-> <<>>]

(***************************************************************************)
(* The state machine.  The caller owns the schema objects (heap; declared  *)
(* keeps them as the caller wrote them) and the registry contents          *)
(* (schemas), and invokes one of the algorithms (call), any number of      *)
(* times; last is what the latest invocation returned.                     *)
(***************************************************************************)
InitOn(heaps, calls) ==
  /\ heap \in heaps
  /\ declared = heap
  /\ schemas = NodeRegistry
  /\ call \in calls
  /\ last = NoResult

CallFindProperty ==
  /\ call.op = "findPropertyInSchema"
  /\ LET r == findPropertyInSchema(heap, schemas, call.schema,
                propertyPathToArray(call.pathStr, call.path), 0) IN
       /\ heap' = r.heap
       /\ last' = [NoResult EXCEPT !.done = TRUE, !.value = r.result]
  /\ UNCHANGED <<declared, schemas, call>>

\* The call dropping its allowedStorage argument.
CallFindRelationshipsIgnoringFilter ==
  /\ call.op = "findRelationshipsInSchema"
  /\ LET r == findRelationshipsInSchema(heap, schemas, call.schema, UnsetStorage,
                limitToPathArrOf(call.pathStr, call.limitToPath), call.maxDepth,
                <<>>, <<>>, 0, 0) IN
       last' = [NoResult EXCEPT !.done = TRUE, !.error = r.error, !.list = r.list]
  /\ UNCHANGED <<heap, declared, schemas, call>>

CallFindRelationships ==
  /\ call.op = "findRelationshipsInSchema"
  /\ LET r == findRelationshipsInSchema(heap, schemas, call.schema, call.allowedStorage,
                limitToPathArrOf(call.pathStr, call.limitToPath), call.maxDepth,
                <<>>, <<>>, 0, 0) IN
       last' = [NoResult EXCEPT !.done = TRUE, !.error = r.error, !.list = r.list]
  /\ UNCHANGED <<heap, declared, schemas, call>>

CallFindTransient ==
  /\ call.op = "findTransientPropertiesInSchema"
  /\ LET r == findTransientPropertiesInSchema(heap, schemas, call.schema,
                limitToPathArrOf(call.pathStr, call.limitToPath), call.maxDepth,
                <<>>, <<>>, 0) IN
       last' = [NoResult EXCEPT !.done = TRUE, !.error = r.error, !.list = r.list]
  /\ UNCHANGED <<heap, declared, schemas, call>>

CallPropertyIsRequired ==
  /\ call.op = "propertyIsRequiredInSchema"
  /\ LET r == propertyIsRequiredInSchema(heap, schemas, call.schema,
                propertyPathToArray(call.pathStr, call.path), 0) IN
       last' = [NoResult EXCEPT !.done = TRUE, !.value = r]
  /\ UNCHANGED <<heap, declared, schemas, call>>

CallDottedPathToArray ==
  /\ call.op = "dottedPathToArray"
  /\ last' = [NoResult EXCEPT !.done = TRUE, !.list = dottedPathToArray(call.pathStr.val)]
  /\ UNCHANGED <<heap, declared, schemas, call>>

CallArrayToDottedPath ==
  /\ call.op = "arrayToDottedPath"
  /\ last' = [NoResult EXCEPT !.done = TRUE, !.text = arrayToDottedPath(call.path)]
  /\ UNCHANGED <<heap, declared, schemas, call>>

CallShortenPath ==
  /\ call.op = "shortenPath"
  /\ LET r == shortenPath(call.pathStr.val, call.numComponentsToTrim) IN
       last' = [NoResult EXCEPT !.done = TRUE, !.error = r.error, !.text = r.value]
  /\ UNCHANGED <<heap, declared, schemas, call>>

CallTailPath ==
  /\ call.op = "tailPath"
  /\ LET r == tailPath(call.pathStr.val, call.numComponentsToTrim) IN
       last' = [NoResult EXCEPT !.done = TRUE, !.error = r.error, !.text = r.value]
  /\ UNCHANGED <<heap, declared, schemas, call>>

CallExpandSchemaReferences ==
  /\ call.op = "expandSchemaReferences"
  /\ last' = [NoResult EXCEPT !.done = TRUE,
                              !.list = expandSchemaReferences(heap, schemas, call.schema)]
  /\ UNCHANGED <<heap, declared, schemas, call>>

CallMapPaths ==
  /\ call.op = "mapPaths"
  /\ LET r == mapPaths(heap, call.x, call.transformPath, <<>>, 0) IN
       last' = [NoResult EXCEPT !.done = TRUE, !.error = r.error, !.value = r.value]
  /\ UNCHANGED <<heap, declared, schemas, call>>

\* The caller invokes the next method of the registry.
IssueCall(calls) ==
  /\ call' \in calls
  /\ last' = NoResult
  /\ UNCHANGED <<heap, declared, schemas>>

CallRegisterSchema ==
  /\ call.op = "registerSchema"
  /\ schemas' = registerSchema(schemas, call.schemaId, call.schema)
  /\ heap' = freeze(heap, call.schema)
  /\ last' = [NoResult EXCEPT !.done = TRUE]
  /\ UNCHANGED <<declared, call>>

CallDeregisterSchema ==
  /\ call.op = "deregisterSchema"
  /\ schemas' = deregisterSchema(schemas, call.schemaId)
  /\ last' = [NoResult EXCEPT !.done = TRUE]
  /\ UNCHANGED <<heap, declared, call>>

CallClear ==
  /\ call.op = "clear"
  /\ schemas' = EmptyRegistry
  /\ last' = [NoResult EXCEPT !.done = TRUE]
  /\ UNCHANGED <<heap, declared, call>>

CallGetSchema ==
  /\ call.op = "getSchema"
  /\ last' = [NoResult EXCEPT !.done = TRUE, !.value = getSchema(schemas, call.schemaId)]
  /\ UNCHANGED <<heap, declared, schemas, call>>

\* A caller that holds a schema node assigns to its type key.  On a frozen
\* object the assignment changes nothing: it throws a TypeError in strict
\* code and is ignored in sloppy code.
CallerAssignsType ==
  /\ call.op = "assignType"
  /\ IF heap[call.schema].frozen
       THEN /\ heap' = heap
            /\ \E error \in {NoError, "TypeError"} :
                 last' = [NoResult EXCEPT !.done = TRUE, !.error = error]
       ELSE /\ heap' = [heap EXCEPT ![call.schema].type = "number"]
            /\ last' = [NoResult EXCEPT !.done = TRUE]
  /\ UNCHANGED <<declared, schemas, call>>

\* All four algorithms on schemas without annotations.
Init ==
  InitOn(Topologies, FindPropertyCalls \cup PropertyIsRequiredCalls
                     \cup FindRelationshipsCalls \cup FindTransientCalls)

Next ==
  \/ CallFindProperty
  \/ CallFindRelationships
  \/ CallFindTransient
  \/ CallPropertyIsRequired

Spec == Init /\ [][Next]_vars

(***************************************************************************)
(* Annotated schemas: the structural shapes above with the required,       *)
(* relationship or transient keywords set on their nodes.                  *)
(***************************************************************************)
\* Shapes of the schemas that carry relationship or transient keywords.
AnnotatedTopologies ==
  {MakeHeap(s1, s2, s3, Leaf) :
     s1 \in Shapes1,
     s2 \in {Leaf, Obj(<<Prop(A, "n4")>>), RefTo("n3"), Arr("n3"), AllOf(<<"n3", "n4">>)},
     s3 \in {Leaf, Obj(<<Prop(A, "n4")>>), RefTo("n1"), RefTo("n4")}}

NoRelationship == [storage |-> Undefined, entityType |-> Undefined, foreignKey |-> Undefined]
RelationshipKeywords ==
  {NoRelationship,
   [NoRelationship EXCEPT !.storage = "copy"],
   [NoRelationship EXCEPT !.storage = "ref", !.entityType = "E"],
   [NoRelationship EXCEPT !.storage = "inverse-ref", !.foreignKey = "fk"],
   [NoRelationship EXCEPT !.storage = "inverse-ref"],
   [NoRelationship EXCEPT !.foreignKey = "fk"]}

WithRelationship(node, k) ==
  [node EXCEPT !.storage = k.storage, !.entityType = k.entityType, !.foreignKey = k.foreignKey]

RelationshipHeaps ==
  {[t EXCEPT !["n2"] = WithRelationship(@, k2), !["n3"] = WithRelationship(@, k3),
             !["n4"] = WithRelationship(@, k4)] :
     t \in AnnotatedTopologies, k2 \in RelationshipKeywords, k3 \in RelationshipKeywords,
     k4 \in {NoRelationship, [NoRelationship EXCEPT !.storage = "copy"]}}

TransientHeaps ==
  {[t EXCEPT !["n1"].transient = t1, !["n2"].transient = t2, !["n3"].transient = t3,
             !["n4"].transient = t4] :
     t \in AnnotatedTopologies, t1 \in {Undefined, True}, t2 \in {Undefined, True, False},
     t3 \in {Undefined, True, False}, t4 \in {Undefined, True}}

RequiredHeaps ==
  {[t EXCEPT !["n1"].required = r1, !["n2"].required = r2, !["n3"].required = r3] :
     t \in Topologies, r1 \in {{}, {A}, {A, B}}, r2 \in {{}, {A}, {B}}, r3 \in {{}, {A}}}

\* The property finder and the required checker on schemas with required lists.
InitProperty == InitOn(RequiredHeaps, FindPropertyCalls \cup PropertyIsRequiredCalls)
NextProperty == CallFindProperty \/ CallPropertyIsRequired
SpecProperty == InitProperty /\ [][NextProperty]_vars

\* The relationship finder on schemas with relationship keywords, and on Person.
InitRelationships ==
  \/ InitOn(RelationshipHeaps, FindRelationshipsCalls)
  \/ /\ heap = PersonHeap
     /\ declared = heap
     /\ schemas = PersonRegistry
     /\ call \in FindRelationshipsCalls
     /\ last = NoResult
NextRelationships == CallFindRelationships
SpecRelationships == InitRelationships /\ [][NextRelationships]_vars

\* The transient finder on schemas with transient flags.
InitTransient == InitOn(TransientHeaps, FindTransientCalls)
NextTransient == CallFindTransient
SpecTransient == InitTransient /\ [][NextTransient]_vars

(***************************************************************************)
(* Paths as strings.  A well-formed path string is written from a sequence *)
(* of segments that starts with a property name: names are joined by '.',  *)
(* an integer k is written [k] and the wildcard [*].                       *)
(***************************************************************************)
SegmentString(seg) ==
  IF seg.isNumber
    THEN <<"[">> \o (IF seg.num = Wildcard THEN <<"*">> ELSE NumberToString(seg.num)) \o <<"]">>
    ELSE <<".">> \o seg.str

RECURSIVE PathString(_)
PathString(segments) ==
  IF segments = <<>> THEN <<>>
  ELSE IF Len(segments) = 1 THEN Tail(SegmentString(segments[1]))
  ELSE PathString(SubSeq(segments, 1, Len(segments) - 1))
       \o SegmentString(segments[Len(segments)])

NameFirstPaths == {p \in Paths : p # <<>> /\ ~p[1].isNumber}

\* The largest number of components a caller asks to trim.
MaxTrim == 3

PathCalls ==
  {[NoArgs EXCEPT !.op = "dottedPathToArray", !.path = p, !.pathStr = Given(PathString(p))] :
     p \in NameFirstPaths}
  \cup {[NoArgs EXCEPT !.op = "arrayToDottedPath", !.path = p] : p \in Paths}
  \cup {[NoArgs EXCEPT !.op = op, !.path = p, !.pathStr = Given(PathString(p)),
                        !.numComponentsToTrim = n] :
          op \in {"shortenPath", "tailPath"}, p \in NameFirstPaths, n \in 0..MaxTrim}

\* The four algorithms called with the path (the finders: limitToPath) as a
\* string; path and limitToPath keep the segments the string was written from.
StringPathCalls ==
  {[NoArgs EXCEPT !.op = op, !.path = p, !.pathStr = Given(PathString(p)),
                  !.limitToPath = Given(p)] :
     op \in {"findPropertyInSchema", "propertyIsRequiredInSchema",
             "findRelationshipsInSchema", "findTransientPropertiesInSchema"},
     p \in NameFirstPaths}

\* Schemas of objects, arrays and primitives with required lists, storage
\* classes and transient flags.
PathHeaps ==
  {[t EXCEPT !["n1"].required = {A}, !["n2"].required = {A},
             !["n3"].storage = "copy", !["n3"].transient = True,
             !["n4"].storage = "copy", !["n4"].transient = True] :
     t \in {u \in Topologies : \A n \in NodeIds : ~Truthy(u[n].ref) /\ ~u[n].hasAllOf /\ ~u[n].hasOneOf}}

InitPaths == InitOn(PathHeaps, StringPathCalls) \/ InitOn({PersonHeap}, PathCalls)
NextPaths ==
  \/ CallDottedPathToArray
  \/ CallArrayToDottedPath
  \/ CallShortenPath
  \/ CallTailPath
  \/ CallFindProperty
  \/ CallFindRelationships
  \/ CallFindTransient
  \/ CallPropertyIsRequired
SpecPaths == InitPaths /\ [][NextPaths]_vars

(***************************************************************************)
(* A registry in use: schemas are registered, looked up, removed, queried  *)
(* through the four wrappers, and written to by the caller that built them.*)
(***************************************************************************)
\* n1 = {allOf: [{$ref: '#n3'}, n3]}, n3 = {type: object, required: [a],
\* properties: {a: n4}}, n4 = {type: string, storage: copy, transient: true}
RegistryHeap ==
  MakeHeap(AllOf(<<"n2", "n3">>), RefTo("n3"),
           [Obj(<<Prop(A, "n4")>>) EXCEPT !.required = {A}],
           [Leaf EXCEPT !.storage = "copy", !.transient = True])

RegistryIds == {"#n3", "constructor"}
RegisteredNodes == {"n1", "n3"}

RegistryCalls ==
  {[NoArgs EXCEPT !.op = "registerSchema", !.schemaId = id, !.schema = n] :
     id \in RegistryIds, n \in RegisteredNodes}
  \cup {[NoArgs EXCEPT !.op = op, !.schemaId = id] :
          op \in {"deregisterSchema", "getSchema"}, id \in RegistryIds}
  \cup {[NoArgs EXCEPT !.op = "clear"]}
  \cup {[NoArgs EXCEPT !.op = op, !.schema = n, !.path = p] :
          op \in {"findPropertyInSchema", "propertyIsRequiredInSchema"},
          n \in {"n1", "n2"}, p \in {<<>>, <<Name(A)>>}}
  \cup {[NoArgs EXCEPT !.op = op, !.schema = n] :
          op \in {"findRelationshipsInSchema", "findTransientPropertiesInSchema"},
          n \in {"n1", "n2"}}
  \cup {[NoArgs EXCEPT !.op = "assignType", !.schema = n] : n \in {"n3", "n4"}}

InitRegistry ==
  /\ heap = RegistryHeap
  /\ declared = heap
  /\ schemas = EmptyRegistry
  /\ call = NoArgs
  /\ last = NoResult
NextRegistry ==
  \/ IssueCall(RegistryCalls)
  \/ CallRegisterSchema
  \/ CallDeregisterSchema
  \/ CallClear
  \/ CallGetSchema
  \/ CallerAssignsType
  \/ CallFindProperty
  \/ CallFindRelationships
  \/ CallFindTransient
  \/ CallPropertyIsRequired
SpecRegistry == InitRegistry /\ [][NextRegistry]_vars

(***************************************************************************)
(* Properties.                                                             *)
(***************************************************************************)
Root == declared[call.schema]

\* A node of none of the composite kinds: no $ref, no allOf, no oneOf.
IsPlain(node) == ~Truthy(node.ref) /\ ~node.hasAllOf /\ ~node.hasOneOf
IsPlainObject(node) == IsPlain(node) /\ node.type = "object"

\* Following $ref hops from node n ends (at a node without $ref or at an
\* unresolved reference) within k hops.
RECURSIVE RefChainEnds(_, _, _, _)
RefChainEnds(h, reg, n, k) ==
  \/ ~Truthy(h[n].ref)
  \/ resolveSchemaRef(reg, h[n].ref) = Undefined
  \/ k > 0 /\ RefChainEnds(h, reg, resolveSchemaRef(reg, h[n].ref), k - 1)

\* Every reference cycle of the schemas passes through a node that is not a
\* pure $ref hop.
NoRefOnlyCycle(h, reg) == \A n \in NodeIds : RefChainEnds(h, reg, n, Cardinality(NodeIds))

\* The schema graph returns to one of its nodes.
RECURSIVE Reaches(_, _, _, _, _)
Children(h, reg, n) ==
  {h[n].properties[i].schema : i \in 1..Len(h[n].properties)}
  \cup {h[n].allOf[i] : i \in 1..Len(h[n].allOf)}
  \cup {h[n].oneOf[i] : i \in 1..Len(h[n].oneOf)}
  \cup (IF Truthy(h[n].items) THEN {h[n].items} ELSE {})
  \cup (IF Truthy(h[n].ref) /\ resolveSchemaRef(reg, h[n].ref) # Undefined
          THEN {resolveSchemaRef(reg, h[n].ref)} ELSE {})
Reaches(h, reg, from, to, k) ==
  \/ to \in Children(h, reg, from)
  \/ k > 0 /\ \E m \in Children(h, reg, from) : Reaches(h, reg, m, to, k - 1)
IsCyclic(h, reg) == Reaches(h, reg, "n1", "n1", Cardinality(NodeIds))
\* No node of the schema graph is reached from itself.
Acyclic(h, reg) == \A n \in NodeIds : ~Reaches(h, reg, n, n, Cardinality(NodeIds))

IsFinderCall == call.op \in {"findRelationshipsInSchema", "findTransientPropertiesInSchema"}

ABCycleHeap ==
  MakeHeap(Obj(<<Prop(A, "n2"), Prop(B, "n3")>>), RefTo("n3"),
           Obj(<<Prop(A, "n4")>>), RefTo("n1"))

PersonCallReturned ==
  /\ heap = PersonHeap /\ schemas = PersonRegistry /\ last.done
  /\ call.op = "findRelationshipsInSchema" /\ call.schema = "n1"
  /\ ~call.allowedStorage.set /\ ~call.limitToPath.set /\ call.maxDepth = Given(2)

PersonRelationship(path, depthFromParent) ==
  [path |-> path, toMany |-> FALSE, storage |-> "ref", entityTypeName |-> "Person",
   schemaRef |-> "#Person", schema |-> "n1", depthFromParent |-> depthFromParent,
   foreignKeyPath |-> Undefined]

\* C2 as stated: on Person with maxDepth 2 the finder returns exactly one
\* relationship, 'manager', with storage 'ref', entityTypeName 'Person' and
\* depthFromParent 0.
C2_Original ==
  PersonCallReturned =>
    /\ last.error = NoError
    /\ Len(last.list) = 1
    /\ last.list[1].path = <<"manager">>
    /\ last.list[1].storage = "ref"
    /\ last.list[1].entityTypeName = "Person"
    /\ last.list[1].depthFromParent = 0

\* C2 amended: on Person with maxDepth 2 the finder returns exactly two
\* relationships, both with storage 'ref' and entityTypeName 'Person': 'manager'
\* with depthFromParent 1 and 'manager.manager' with depthFromParent 0; nothing
\* is returned for 'manager.manager.manager'.
C2_PersonMaxDepthTwo ==
  PersonCallReturned =>
    /\ last.error = NoError
    /\ last.list = <<PersonRelationship(<<"manager">>, 1),
                     PersonRelationship(<<"manager", ".", "manager">>, 0)>>

C2_Witness == PersonCallReturned /\ Len(last.list) = 2

\* C3 as stated: no call changes a schema node; every node, the order of its
\* allOf/oneOf lists included, is as the caller wrote it.
C3_Original == heap = declared

\* The value findPropertyInSchema yields for one alternative of an allOf list
\* of the schema as declared.
AlternativeResult(option, pathArr) ==
  LET schemaOption == resolveOption(declared, schemas, option, 0) IN
  IF schemaOption \in {Undefined, Hang} THEN schemaOption
  ELSE findPropertyInSchema(declared, schemas, schemaOption, pathArr, 1).result

\* The result of the last alternative, in declared order, that is not absent.
RECURSIVE LastAlternativeResult(_, _)
LastAlternativeResult(options, pathArr) ==
  IF options = <<>> THEN Undefined
  ELSE LET r == AlternativeResult(options[Len(options)], pathArr) IN
       IF Truthy(r) THEN r
       ELSE LastAlternativeResult(SubSeq(options, 1, Len(options) - 1), pathArr)

\* C4 as stated: on a node with allOf (here of a schema without cycles), every
\* call of findPropertyInSchema, the second and later ones on the same schema
\* included, returns the result of the last alternative in declared order that
\* is not absent.
C4_Original ==
  (last.done /\ call.op = "findPropertyInSchema" /\ Acyclic(declared, schemas)
   /\ ~Truthy(Root.ref) /\ Root.hasAllOf /\ Len(call.path) > 0)
    => last.value = LastAlternativeResult(Root.allOf, call.path)

IsRelationshipsCall == call.op = "findRelationshipsInSchema"

\* The alternatives of the root's allOf (or else oneOf) list.
RootOptions == IF Root.hasAllOf THEN Root.allOf ELSE Root.oneOf

\* What the finder returns for one alternative of the root, at the root's path:
\* the call the loop over the alternatives makes.
AlternativeInLoop(option) ==
  findRelationshipsInSchema(heap, schemas, option, call.allowedStorage, call.limitToPath,
    call.maxDepth, <<>>, <<call.schema>>, 0, 1)

\* The same alternative handed to the finder by a caller, with the arguments of
\* the call on the root.
AlternativeAlone(option) ==
  findRelationshipsInSchema(heap, schemas, option, call.allowedStorage, call.limitToPath,
    call.maxDepth, <<>>, <<>>, 0, 0)

Contains(list, sublist) == \A j \in 1..Len(sublist) : Includes(list, sublist[j])

RECURSIVE EffectiveKeyword(_, _, _)
EffectiveKeyword(n, key, hops) ==
  IF declared[n][key] # Undefined THEN declared[n][key]
  ELSE IF Truthy(declared[n].ref) /\ resolveSchemaRef(schemas, declared[n].ref) # Undefined
          /\ hops > 0
    THEN EffectiveKeyword(resolveSchemaRef(schemas, declared[n].ref), key, hops - 1)
  ELSE Undefined

EffectiveStorage(n) == EffectiveKeyword(n, "storage", Cardinality(NodeIds))
EffectiveForeignKey(n) == EffectiveKeyword(n, "foreignKey", Cardinality(NodeIds))

\* No node is an inverse reference without a foreign key on itself or on a
\* schema it refers to.
EveryInverseRefHasForeignKey ==
  \A n \in NodeIds : EffectiveStorage(n) = "inverse-ref" => Truthy(EffectiveForeignKey(n))

\* The call walks every property of an object root whatever the storage class:
\* no limitToPath, no allowedStorage, a maxDepth of at least 1, and it neither
\* overflowed the stack nor spun.
WalkedRootProperties ==
  /\ last.done /\ IsPlainObject(Root) /\ ~call.limitToPath.set
  /\ call.maxDepth.set /\ call.maxDepth.val >= 1
  /\ last.error \notin {RangeError, Hang}

\* C6 as stated: every property of the root whose effective storage (its own,
\* or else that of the schema its $ref hops lead to) is set is returned as a
\* relationship with that storage, and an inverse reference with the effective
\* foreign key as foreignKeyPath.
C6_Original ==
  (WalkedRootProperties /\ IsRelationshipsCall /\ ~call.allowedStorage.set
   /\ EveryInverseRefHasForeignKey)
    => /\ last.error = NoError
       /\ \A i \in 1..Len(Root.properties) :
            LET n == Root.properties[i].schema IN
            Truthy(EffectiveStorage(n)) =>
              \E j \in 1..Len(last.list) :
                /\ last.list[j].path = Root.properties[i].name
                /\ last.list[j].storage = EffectiveStorage(n)
                /\ EffectiveStorage(n) = "inverse-ref" =>
                     last.list[j].foreignKeyPath = EffectiveForeignKey(n)

\* C7 as stated: when a property of the root declares storage 'inverse-ref'
\* and neither it nor a schema it refers to has a foreign key, the call raises
\* SchemaError, whatever allowedStorage is and whatever the type of the node.
C7_Original ==
  (WalkedRootProperties /\ IsRelationshipsCall
   /\ \E i \in 1..Len(Root.properties) :
        /\ declared[Root.properties[i].schema].storage = "inverse-ref"
        /\ ~Truthy(EffectiveForeignKey(Root.properties[i].schema)))
    => last.error = SchemaError

\* The node a chain of $ref hops ends at (the node itself without $ref).
RECURSIVE RefTarget(_, _)
RefTarget(n, hops) ==
  IF Truthy(declared[n].ref) /\ resolveSchemaRef(schemas, declared[n].ref) # Undefined
     /\ hops > 0
    THEN RefTarget(resolveSchemaRef(schemas, declared[n].ref), hops - 1)
    ELSE n

EffectiveTransient(n) == EffectiveKeyword(n, "transient", Cardinality(NodeIds))

\* C8 as stated: a property of the root (a plain node, or $ref hops that end at
\* one) is reported iff its effective transient flag is true: its own value
\* when set, true or false, otherwise that of the schema it refers to.
C8_Original ==
  (WalkedRootProperties /\ call.op = "findTransientPropertiesInSchema")
    => \A i \in 1..Len(Root.properties) :
         LET n == Root.properties[i].schema IN
         IsPlain(declared[RefTarget(n, Cardinality(NodeIds))]) =>
           (Includes(last.list, Root.properties[i].name) <=> EffectiveTransient(n) = True)

\* The path is made of property names and addresses an existing property at
\* every step, each step starting at an object node.
RECURSIVE ExistsThroughObjects(_, _)
ExistsThroughObjects(n, pathArr) ==
  \/ pathArr = <<>>
  \/ /\ IsPlainObject(declared[n]) /\ ~pathArr[1].isNumber
     /\ Lookup(declared[n].properties, pathArr[1].str) # Undefined
     /\ ExistsThroughObjects(Lookup(declared[n].properties, pathArr[1].str), Tail(pathArr))

\* Every object node on the path lists the next segment in required.
RECURSIVE EveryAncestorRequires(_, _)
EveryAncestorRequires(n, pathArr) ==
  \/ pathArr = <<>>
  \/ /\ pathArr[1].str \in declared[n].required
     /\ EveryAncestorRequires(Lookup(declared[n].properties, pathArr[1].str), Tail(pathArr))

IsRequiredCall == call.op = "propertyIsRequiredInSchema"

\* C9: for a path of property names through existing properties of object
\* nodes, propertyIsRequiredInSchema returns true when every object node on the
\* path lists the next segment in required, and false otherwise.
C9_RequiredChain ==
  (last.done /\ IsRequiredCall /\ Len(call.path) > 0
   /\ ExistsThroughObjects(call.schema, call.path))
    => last.value = IF EveryAncestorRequires(call.schema, call.path) THEN True ELSE False

\* A two-level path whose two ancestors both list their segment: true.
C9_Witness ==
  /\ last.done /\ IsRequiredCall /\ Len(call.path) = 2
  /\ ExistsThroughObjects(call.schema, call.path)
  /\ EveryAncestorRequires(call.schema, call.path)
  /\ last.value = True

\* C10 as stated: for a path findPropertyInSchema finds no property for,
\* propertyIsRequiredInSchema does not answer true.
C10_Original ==
  (last.done /\ IsRequiredCall /\ last.value \notin {RangeError, Hang}
   /\ findPropertyInSchema(heap, schemas, call.schema, call.path, 0).result
        \in {Undefined, Null})
    => last.value # True

\* C11 as stated: the path codec round-trips in both directions: a well-formed
\* path string converted to segments and back is the same string, and a
\* sequence of names, non-negative integers and wildcards converted to a string
\* and back is the same sequence.
C11_Original ==
  /\ (last.done /\ call.op = "dottedPathToArray")
       => arrayToDottedPath(last.list) = call.pathStr.val
  /\ (last.done /\ call.op = "arrayToDottedPath")
       => dottedPathToArray(last.text) = call.path

\* C12 as stated: dottedPathToArray yields one string segment per
\* dot-separated name, the integer k for [k] and the wildcard for [*], so the
\* depth of the path is its number of names plus its number of bracket groups.
C12_Original ==
  (last.done /\ call.op = "dottedPathToArray")
    => /\ last.list = call.path
       /\ pathDepth(last.list) = Len(call.path)

\* C13 as stated: shortenPath and tailPath raise an error exactly when the
\* number of components to trim exceeds the number of segments of the path as
\* the path grammar counts them.
C13_Original ==
  (last.done /\ call.op \in {"shortenPath", "tailPath"})
    => (last.error # NoError <=> call.numComponentsToTrim > Len(call.path))

\* The handler of the method the caller invoked runs in this step.
HandlerStep(op) == call.op = op /\ call' = call /\ last'.done

\* C14 as stated: getSchema yields absent for every id of a new registry;
\* registerSchema(id, s) makes getSchema(id) yield s, deregisterSchema(id) makes
\* it yield absent, both leaving every other id as it was; clear makes every
\* id absent; no other step changes what getSchema yields.
C14_Original ==
  /\ \A id \in RegistryIds : getSchema(schemas, id) = Undefined
  /\ [][/\ HandlerStep("registerSchema") =>
             /\ getSchema(schemas', call.schemaId) = call.schema
             /\ \A id \in RegistryIds \ {call.schemaId} :
                  getSchema(schemas', id) = getSchema(schemas, id)
        /\ HandlerStep("deregisterSchema") =>
             /\ getSchema(schemas', call.schemaId) = Undefined
             /\ \A id \in RegistryIds \ {call.schemaId} :
                  getSchema(schemas', id) = getSchema(schemas, id)
        /\ HandlerStep("clear") => \A id \in RegistryIds : getSchema(schemas', id) = Undefined
        /\ ~(\E op \in {"registerSchema", "deregisterSchema", "clear"} : HandlerStep(op)) =>
             \A id \in RegistryIds : getSchema(schemas', id) = getSchema(schemas, id)
       ]_vars

\* The nodes of a schema value: the node and everything nested in it through
\* properties, items, allOf and oneOf.
Nested(h, n) ==
  {h[n].properties[i].schema : i \in 1..Len(h[n].properties)}
  \cup {h[n].allOf[i] : i \in 1..Len(h[n].allOf)}
  \cup {h[n].oneOf[i] : i \in 1..Len(h[n].oneOf)}
  \cup (IF Truthy(h[n].items) THEN {h[n].items} ELSE {})

RECURSIVE NodesOf(_, _, _)
NodesOf(h, n, k) ==
  {n} \cup (IF k = 0 THEN {}
            ELSE UNION {NodesOf(h, m, k - 1) : m \in Nested(h, n)})

\* The keys and values of a node.
Content(node) == [key \in (DOMAIN node) \ {"frozen"} |-> node[key]]

\* C15 as stated: while a schema stays registered under an id, no step, of the
\* engine or of a caller, changes any of its nodes at any nesting depth.
C15_Original ==
  [][\A id \in (DOMAIN schemas) \cap (DOMAIN schemas') :
       schemas'[id] = schemas[id] =>
         \A m \in NodesOf(heap, schemas[id], Cardinality(NodeIds)) :
           Content(heap'[m]) = Content(heap[m])]_vars

\* What is registered under an id right now, absent when nothing is.
Registered(id) == IF id \in DOMAIN schemas' THEN schemas'[id] ELSE Undefined

C17_Original ==
  (last.done /\ call.pathStr.set)
    => /\ call.op = "findPropertyInSchema" =>
            last.value = findPropertyInSchema(heap, schemas, call.schema, call.path, 0).result
       /\ call.op = "propertyIsRequiredInSchema" =>
            last.value = propertyIsRequiredInSchema(heap, schemas, call.schema, call.path, 0)
       /\ call.op = "findRelationshipsInSchema" =>
            last.list = findRelationshipsInSchema(heap, schemas, call.schema,
                          call.allowedStorage, Given(call.path), call.maxDepth,
                          <<>>, <<>>, 0, 0).list
       /\ call.op = "findTransientPropertiesInSchema" =>
            last.list = findTransientPropertiesInSchema(heap, schemas, call.schema,
                          Given(call.path), call.maxDepth, <<>>, <<>>, 0).list

\* Manual navigation: properties[name] at an object node, items at an array
\* node for a number segment; absent (Undefined) when the step cannot be taken.
RECURSIVE Navigate(_, _)
Navigate(n, pathArr) ==
  IF pathArr = <<>> THEN n
  ELSE IF declared[n].type = "object" THEN
    IF ~pathArr[1].isNumber /\ Lookup(declared[n].properties, pathArr[1].str) # Undefined
      THEN Navigate(Lookup(declared[n].properties, pathArr[1].str), Tail(pathArr))
      ELSE Undefined
  ELSE IF declared[n].type = "array" THEN
    IF pathArr[1].isNumber /\ Truthy(declared[n].items)
      THEN Navigate(declared[n].items, Tail(pathArr))
      ELSE Undefined
  ELSE Undefined

\* No node of the schema has $ref, allOf or oneOf.
PlainSchema == \A n \in NodeIds : IsPlain(declared[n])

UnresolvedTopologies ==
  {MakeHeap(s1, s2, s3, s4) :
     s1 \in Shapes1,
     s2 \in {MissingRef, Obj(<<Prop(A, "n4")>>), Arr("n4")},
     s3 \in {Leaf, Obj(<<Prop(A, "n4")>>)},
     s4 \in {MissingRef, Leaf}}

\* Relationship and transient keywords set together on one node.
Annotations ==
  {[k |-> NoRelationship, transient |-> Undefined],
   [k |-> [NoRelationship EXCEPT !.storage = "copy"], transient |-> True],
   [k |-> [NoRelationship EXCEPT !.storage = "ref", !.entityType = "E"], transient |-> True]}

Annotated(node, a) == [WithRelationship(node, a.k) EXCEPT !.transient = a.transient]

UnresolvedHeaps ==
  {[t EXCEPT !["n1"].required = {A, B},
             !["n2"] = [Annotated(@, a2) EXCEPT !.required = {A}],
             !["n3"] = [Annotated(@, a3) EXCEPT !.required = {A}],
             !["n4"] = Annotated(@, a4)] :
     t \in UnresolvedTopologies, a2 \in Annotations, a3 \in Annotations,
     a4 \in {a \in Annotations : a.k.storage # "ref"}}

InitUnresolved ==
  InitOn(UnresolvedHeaps, FindPropertyCalls \cup PropertyIsRequiredCalls
                          \cup FindRelationshipsCalls \cup FindTransientCalls)
NextUnresolved ==
  \/ CallFindProperty
  \/ CallFindRelationships
  \/ CallFindTransient
  \/ CallPropertyIsRequired
SpecUnresolved == InitUnresolved /\ [][NextUnresolved]_vars

\* Node n carries a $ref the registry has no schema for.
Unresolved(n) ==
  Truthy(declared[n].ref) /\ resolveSchemaRef(schemas, declared[n].ref) = Undefined

\* The schema with every unresolved node replaced by an empty schema, a node
\* that has no results and no branches.
Pruned == [n \in NodeIds |-> IF Unresolved(n) THEN EmptyNode ELSE declared[n]]

\* Following pathArr from node n by properties and items arrives at an
\* unresolved node with at least `remaining` segments of the path left.
RECURSIVE RunsInto(_, _, _)
RunsInto(n, pathArr, remaining) ==
  IF Unresolved(n) THEN Len(pathArr) >= remaining
  ELSE IF pathArr = <<>> \/ ~IsPlain(declared[n]) THEN FALSE
  ELSE IF declared[n].type = "object" THEN
    /\ ~pathArr[1].isNumber
    /\ Lookup(declared[n].properties, pathArr[1].str) # Undefined
    /\ RunsInto(Lookup(declared[n].properties, pathArr[1].str), Tail(pathArr), remaining)
  ELSE IF declared[n].type = "array" THEN
    /\ pathArr[1].isNumber
    /\ Truthy(declared[n].items)
    /\ RunsInto(declared[n].items, Tail(pathArr), remaining)
  ELSE FALSE

\* C19 as stated: with an unresolved $ref in the schema the two finders raise
\* nothing and return exactly what the schema without the unresolved branch
\* gives (nothing from that branch, everything from its siblings);
\* findPropertyInSchema returns absent and propertyIsRequiredInSchema returns
\* false for a path that leads through properties and items into the
\* unresolved node with segments of the path left.
C19_Original ==
  (last.done /\ ~call.pathStr.set)
    => /\ call.op = "findRelationshipsInSchema" =>
            /\ last.error = NoError
            /\ last.list = findRelationshipsInSchema(Pruned, schemas, call.schema,
                 call.allowedStorage, call.limitToPath, call.maxDepth, <<>>, <<>>, 0, 0).list
       /\ call.op = "findTransientPropertiesInSchema" =>
            /\ last.error = NoError
            /\ last.list = findTransientPropertiesInSchema(Pruned, schemas, call.schema,
                 call.limitToPath, call.maxDepth, <<>>, <<>>, 0).list
       /\ (call.op = "findPropertyInSchema" /\ RunsInto(call.schema, call.path, 1))
            => ~Truthy(last.value)
       /\ (call.op = "propertyIsRequiredInSchema" /\ RunsInto(call.schema, call.path, 1))
            => last.value = False

\* The number of segments of a path written by arrayToDottedPath.
SegmentCount(text) ==
  IF text = <<>> THEN 0
  ELSE 1 + Cardinality({i \in 1..Len(text) : text[i] \in {".", "["}})

\* Path p ends strictly above path q.
ProperPrefix(p, q) ==
  /\ Len(p) < Len(q)
  /\ SubSeq(q, 1, Len(p)) = p
  /\ p = <<>> \/ q[Len(p) + 1] \in {".", "["}

\* The segments between relationship list[i] and its nearest enclosing
\* document boundary: the deepest ref or inverse-ref relationship above it,
\* or else the schema root.
StepsFromBoundary(list, i) ==
  LET above == {SegmentCount(list[j].path) :
                  j \in {k \in 1..Len(list) :
                           /\ list[k].storage \in {"ref", "inverse-ref"}
                           /\ ProperPrefix(list[k].path, list[i].path)}}
      boundary == IF above = {} THEN 0 ELSE CHOOSE d \in above : \A e \in above : e <= d
  IN SegmentCount(list[i].path) - boundary

\* C20 as stated: depthFromParent of every returned relationship is its number
\* of steps from the nearest enclosing boundary, counted from the same value
\* (0 or 1 for a direct child) whether the boundary is the root or a ref or
\* inverse-ref relationship, whatever the shape of that relationship node.
C20_Original ==
  (last.done /\ IsRelationshipsCall /\ last.error = NoError /\ ~call.allowedStorage.set)
    => \E first \in {0, 1} :
         \A i \in 1..Len(last.list) :
           last.list[i].depthFromParent = StepsFromBoundary(last.list, i) - 1 + first

\* A path as the finders report it: every index written as the wildcard.
Wildcarded(pathArr) ==
  [i \in 1..Len(pathArr) |-> IF pathArr[i].isNumber THEN Index(Wildcard) ELSE pathArr[i]]

\* The reported path text is a prefix of limitToPath, index for index.
LiesOn(text, limitToPath) ==
  \E k \in 0..Len(limitToPath) :
    text = arrayToDottedPath(Wildcarded(SubSeq(limitToPath, 1, k)))

\* C21 as stated: with limitToPath given, every relationship and every
\* transient path returned is a prefix of limitToPath, a number segment of
\* limitToPath standing where the reported path has its wildcard.
C21_Original ==
  (last.done /\ call.limitToPath.set /\ ~call.pathStr.set /\ last.error = NoError)
    => /\ call.op = "findRelationshipsInSchema" =>
            \A i \in 1..Len(last.list) : LiesOn(last.list[i].path, call.limitToPath.val)
       /\ call.op = "findTransientPropertiesInSchema" =>
            \A i \in 1..Len(last.list) : LiesOn(last.list[i], call.limitToPath.val)

(***************************************************************************)
(* The two finders called with limitToPath, with and without maxDepth, on  *)
(* cyclic annotated schemas and on Person.                                 *)
(***************************************************************************)
LimitTopologies ==
  {MakeHeap(Obj(<<Prop(A, "n2"), Prop(B, "n3")>>), s2, s3, Leaf) :
     s2 \in {Leaf, Obj(<<Prop(A, "n4")>>), Arr("n3"), RefTo("n3")},
     s3 \in {Leaf, RefTo("n1"), Obj(<<Prop(A, "n1")>>), Arr("n1")}}

LimitHeaps ==
  {[t EXCEPT !["n2"] = Annotated(@, a2), !["n3"] = Annotated(@, a3),
             !["n4"] = Annotated(@, a4)] :
     t \in LimitTopologies, a2 \in Annotations, a3 \in Annotations,
     a4 \in {a \in Annotations : a.k.storage # "ref"}}

TransientPersonHeap == [PersonHeap EXCEPT !["n3"].transient = True]

LimitedCalls(segments) ==
  {[NoArgs EXCEPT !.op = op, !.limitToPath = Given(p), !.maxDepth = d] :
     op \in {"findRelationshipsInSchema", "findTransientPropertiesInSchema"},
     p \in PathsOver(segments, MaxPathLen), d \in MaxDepths}

InitLimit ==
  \/ InitOn(LimitHeaps, LimitedCalls(LimitSegments))
  \/ /\ heap = TransientPersonHeap
     /\ declared = heap
     /\ schemas = PersonRegistry
     /\ call \in LimitedCalls({Name(<<"manager">>), Name(<<"name">>)})
     /\ last = NoResult
NextLimit == CallFindRelationships \/ CallFindTransient
SpecLimit == InitLimit /\ [][NextLimit]_vars

\* A maxDepth no path along limitToPath exceeds; with it set, neither the
\* depth test nor the visited-node test of the guard can stop the walk.
InertDepth == Given(Len(call.limitToPath.val))

\* C22 as stated: with limitToPath set the finders return what they return
\* when neither maxDepth nor the visited-node guard can cut the descent, so
\* that Person with limitToPath [manager, manager] yields 'manager' and
\* 'manager.manager'.
C22_Original ==
  (last.done /\ call.limitToPath.set /\ ~call.pathStr.set)
    => /\ call.op = "findRelationshipsInSchema" =>
            [error |-> last.error, list |-> last.list]
              = findRelationshipsInSchema(heap, schemas, call.schema, call.allowedStorage,
                  call.limitToPath, InertDepth, <<>>, <<>>, 0, 0)
       /\ call.op = "findTransientPropertiesInSchema" =>
            [error |-> last.error, list |-> last.list]
              = findTransientPropertiesInSchema(heap, schemas, call.schema,
                  call.limitToPath, InertDepth, <<>>, <<>>, 0)

\* What the call returns with allowedStorage left unset.
Unfiltered ==
  findRelationshipsInSchema(heap, schemas, call.schema, UnsetStorage,
    limitToPathArrOf(call.pathStr, call.limitToPath), call.maxDepth, <<>>, <<>>, 0, 0)

\* The records of list whose storage is in S, in order.
RECURSIVE WithStorageIn(_, _)
WithStorageIn(list, S) ==
  IF list = <<>> THEN <<>>
  ELSE (IF Head(list).storage \in S THEN <<Head(list)>> ELSE <<>>)
       \o WithStorageIn(Tail(list), S)

\* C23: when the unfiltered call raises nothing, the call with allowedStorage
\* = S raises nothing and returns the records of the unfiltered call whose
\* storage is in S, unchanged and in the same order.
C23_FilterOnlyHides ==
  (last.done /\ IsRelationshipsCall /\ call.allowedStorage.set
   /\ Unfiltered.error = NoError)
    => /\ last.error = NoError
       /\ last.list = WithStorageIn(Unfiltered.list, call.allowedStorage.val)

\* A ref relationship hidden by the filter with a relationship below it that
\* is returned, counted from the hidden node as its boundary.
C23_Witness ==
  /\ last.done /\ IsRelationshipsCall /\ call.allowedStorage.set
  /\ Unfiltered.error = NoError
  /\ \E i, j \in 1..Len(Unfiltered.list) :
       /\ Unfiltered.list[i].storage = "ref"
       /\ "ref" \notin call.allowedStorage.val
       /\ ProperPrefix(Unfiltered.list[i].path, Unfiltered.list[j].path)
       /\ Unfiltered.list[j].depthFromParent = 0
       /\ \E k \in 1..Len(last.list) : last.list[k] = Unfiltered.list[j]

\* Following pathArr from node n by properties and items meets an array node
\* with exactly `remaining` segments left (0: with any number left, at least one).
RECURSIVE MeetsArray(_, _, _)
MeetsArray(n, pathArr, remaining) ==
  IF pathArr = <<>> \/ ~IsPlain(declared[n]) THEN FALSE
  ELSE IF declared[n].type = "array" THEN
    \/ remaining = 0 \/ Len(pathArr) = remaining
    \/ /\ Truthy(declared[n].items)
       /\ MeetsArray(declared[n].items, Tail(pathArr), remaining)
  ELSE IF declared[n].type = "object" THEN
    /\ ~pathArr[1].isNumber
    /\ Lookup(declared[n].properties, pathArr[1].str) # Undefined
    /\ MeetsArray(Lookup(declared[n].properties, pathArr[1].str), Tail(pathArr), remaining)
  ELSE FALSE

\* Every object node met along pathArr from node n, above and below array
\* nodes, lists the segment that follows it in required.
RECURSIVE ObjectsRequire(_, _)
ObjectsRequire(n, pathArr) ==
  IF pathArr = <<>> \/ ~IsPlain(declared[n]) THEN TRUE
  ELSE IF declared[n].type = "object" THEN
    /\ listsRequired(declared[n], pathArr)
    /\ Lookup(declared[n].properties, pathArr[1].str) # Undefined
         => ObjectsRequire(Lookup(declared[n].properties, pathArr[1].str), Tail(pathArr))
  ELSE IF declared[n].type = "array" THEN
    Truthy(declared[n].items) => ObjectsRequire(declared[n].items, Tail(pathArr))
  ELSE TRUE

\* C24 as stated: for a path crossing an array node the result is false when
\* the index is the last segment, and true only if every object node on the
\* path, those below the array included, requires its next segment.
C24_Original ==
  (last.done /\ IsRequiredCall /\ ~call.pathStr.set /\ PlainSchema
   /\ MeetsArray(call.schema, call.path, 0))
    => /\ MeetsArray(call.schema, call.path, 1) => last.value = False
       /\ last.value = True => ObjectsRequire(call.schema, call.path)

\* What the required check reports for one alternative of the root.
AlternativeRequired(option) ==
  propertyIsRequiredInSchema(heap, schemas, option, call.path, 0)

\* C25 as stated: at a root with allOf or oneOf the result is true when some
\* alternative reports the path required and the boolean false when none
\* does; whenever the check returns, it returns true or false.
C25_Original ==
  (last.done /\ IsRequiredCall /\ ~call.pathStr.set /\ last.value \notin {RangeError, Hang})
    => /\ last.value \in {True, False}
       /\ (~Truthy(Root.ref) /\ (Root.hasAllOf \/ Root.hasOneOf))
            => last.value =
                 IF \E i \in 1..Len(RootOptions) : AlternativeRequired(RootOptions[i]) = True
                   THEN True ELSE False

(***************************************************************************)
(* mapPaths on graphs of up to three containers.                           *)
(***************************************************************************)
ContainerIds == {"v1", "v2", "v3"}
Values ==
  {NullValue, StringValue(<<"a">>)} \cup {ContainerValue(id) : id \in ContainerIds}

\* Objects with the keys path and k, each present or not; arrays of up to
\* two elements.
Containers ==
  {ObjectOf(<<>>)}
  \cup {ObjectOf(<<Entry(key, v)>>) : key \in {"path", "k"}, v \in Values}
  \cup {ObjectOf(<<Entry("path", v), Entry("k", w)>>) : v \in Values, w \in Values}
  \cup {ArrayOf(<<>>)}
  \cup {ArrayOf(<<Entry("", v)>>) : v \in Values}
  \cup {ArrayOf(<<Entry("", v), Entry("", w)>>) : v \in Values, w \in Values}

LastContainers ==
  {ObjectOf(<<>>), ObjectOf(<<Entry("path", StringValue(<<"a">>))>>),
   ObjectOf(<<Entry("k", ContainerValue("v1"))>>), ArrayOf(<<Entry("", ContainerValue("v1"))>>)}

ValueGraphs ==
  {[id \in ContainerIds |-> CASE id = "v1" -> c1 [] id = "v2" -> c2 [] OTHER -> c3] :
     c1 \in Containers, c2 \in Containers, c3 \in LastContainers}

MapPathsCalls ==
  {[NoArgs EXCEPT !.op = "mapPaths", !.x = ContainerValue("v1"), !.transformPath = t] :
     t \in {"prefix", "withOptions"}}

InitMapPaths ==
  /\ heap \in ValueGraphs
  /\ declared = heap
  /\ schemas = EmptyRegistry
  /\ call \in MapPathsCalls
  /\ last = NoResult
NextMapPaths == CallMapPaths
SpecMapPaths == InitMapPaths /\ [][NextMapPaths]_vars

IsMapPathsCall == call.op = "mapPaths"

\* The containers a container refers to directly.
Successors(id) ==
  {declared[id].entries[i].value.id :
     i \in {j \in 1..Len(declared[id].entries) :
              declared[id].entries[j].value.kind = "container"}}

RECURSIVE ReachableWithin(_, _)
ReachableWithin(ids, steps) ==
  IF steps = 0 THEN ids
  ELSE ReachableWithin(ids \cup UNION {Successors(id) : id \in ids}, steps - 1)

\* The containers of the input value x, and whether a cycle passes through them.
InputContainers == ReachableWithin({call.x.id}, Cardinality(ContainerIds))
OnCycle(id) == id \in ReachableWithin(Successors(id), Cardinality(ContainerIds))
Cyclic == \E id \in InputContainers : OnCycle(id)

\* C26 as stated: mapPaths returns on every input, cyclic or not, whether the
\* cycle passes through objects only or through an array.
C26_Original ==
  (last.done /\ IsMapPathsCall) => last.error = NoError

\* Output out has the shape of input value x: equal primitives, arrays of the
\* same length, every key of every object present, and every string field
\* named path holding the transformed path.
RECURSIVE Preserves(_, _)
RECURSIVE PreservesEntry(_, _)
PreservesEntry(entry, out) ==
  IF entry.key = "path" /\ entry.value.kind = "string"
    THEN out = OutString(transformPath(call.transformPath, entry.value.text).path)
    ELSE Preserves(entry.value, out)

Preserves(x, out) ==
  IF x.kind = "null" THEN out = OutNull
  ELSE IF x.kind = "string" THEN out = OutString(x.text)
  ELSE IF declared[x.id].isArray THEN
    /\ out.kind = "array"
    /\ Len(out.entries) = Len(declared[x.id].entries)
    /\ \A i \in 1..Len(out.entries) :
         Preserves(declared[x.id].entries[i].value, out.entries[i].value)
  ELSE
    /\ out.kind = "object"
    /\ \A i \in 1..Len(declared[x.id].entries) :
         \E j \in 1..Len(out.entries) :
           /\ out.entries[j].key = declared[x.id].entries[i].key
           /\ PreservesEntry(declared[x.id].entries[i], out.entries[j].value)

\* C27 as stated: on an acyclic input the output has the shape of the input
\* with every path field rewritten, also where one object is referenced from
\* two places.
C27_Original ==
  (last.done /\ IsMapPathsCall /\ ~Cyclic)
    => last.error = NoError /\ Preserves(call.x, last.value)

(***************************************************************************)
(* expandSchemaReferences on documents with properties named 'properties'  *)
(* and '$ref'.                                                             *)
(***************************************************************************)
PropertiesName == <<"properties">>
DollarRefName == <<"$ref">>

ExpandHeaps ==
  {MakeHeap(s1, s2, s3, s4) :
     s1 \in {Obj(<<Prop(PropertiesName, "n2"), Prop(A, "n3")>>),
             Obj(<<Prop(A, "n2"), Prop(B, "n3")>>),
             Arr("n2"), AllOf(<<"n2", "n3">>)},
     s2 \in {Leaf, RefTo("n1"), RefTo("n4"), Obj(<<Prop(DollarRefName, "n4")>>),
             Obj(<<Prop(PropertiesName, "n4")>>), Arr("n4")},
     s3 \in {Leaf, RefTo("n1"), RefTo("n4"), Obj(<<Prop(A, "n4")>>)},
     s4 \in {Leaf, RefTo("n1"), Obj(<<>>)}}

ExpandCalls == {[NoArgs EXCEPT !.op = "expandSchemaReferences"]}

InitExpand == InitOn(ExpandHeaps, ExpandCalls)
NextExpand == CallExpandSchemaReferences
SpecExpand == InitExpand /\ [][NextExpand]_vars

\* C28 as stated: every $ref carried by a schema node is replaced by the
\* resolved node, the $ref of a property named 'properties' included, and the
\* only $ref keys left untouched are property names under a properties map.
C28_Original ==
  (last.done /\ call.op = "expandSchemaReferences")
    => \A i \in 1..Len(last.list) :
         /\ last.list[i].substituted <=> ~last.list[i].isPropertyName
         /\ ~last.list[i].isPropertyName
              => last.list[i].node = resolveSchemaRef(schemas, last.list[i].ref)

\* C29 as stated: with maxDepth set the two finders return, with or without
\* limitToPath, also on schemas whose cycle passes only through allOf/oneOf
\* alternatives or only through $ref hops.
C29_Original ==
  (last.done /\ IsFinderCall /\ call.maxDepth.set) => last.error \notin {RangeError, Hang}

\* C30 as stated: for 0 <= n <= pathDepth(p), shortenPath(p, n) is the path of
\* the first pathDepth(p) - n segments of p and tailPath(p, n) the path of the
\* last n segments, so that shortenPath(p, 0) = p and tailPath(p, 0) is empty.
C30_Original ==
  (last.done /\ call.op \in {"shortenPath", "tailPath"}
   /\ call.numComponentsToTrim <= Len(call.path))
    => /\ last.error = NoError
       /\ call.op = "shortenPath" =>
            last.text = arrayToDottedPath(
                          SubSeq(call.path, 1, Len(call.path) - call.numComponentsToTrim))
       /\ call.op = "tailPath" =>
            last.text = arrayToDottedPath(
                          SubSeq(call.path, Len(call.path) - call.numComponentsToTrim + 1,
                                 Len(call.path)))

====
